---- MODULE Spec2Model ----
(***************************************************************************)
(* Model of Video_processing.py: the validation of the input file, the     *)
(* per-frame loop of main() (decode, count, transform, throughput,         *)
(* annotate, display, encode, log, interrupt poll), the release of the     *)
(* decoder, encoder and windows, and the top-level exception handler.      *)
(*                                                                         *)
(* The OpenCV objects are modelled at their interface: a VideoCapture is   *)
(* an open flag and a read position, a VideoWriter an open flag and the    *)
(* frames it was given, a window the last image shown in it, an image a    *)
(* buffer in a heap (so that in-place drawing and aliasing are visible).   *)
(* Any OpenCV call outside the release calls may raise an exception, and   *)
(* a KeyboardInterrupt may arrive at any point of the run.                 *)
(*                                                                         *)
(* SpecPix runs one call of process_frame on pixels (resize, grey,         *)
(* adaptive threshold, histogram equalisation) over small frames; FairSpec *)
(* is Spec with the control flow never suspended for ever.                 *)
(***************************************************************************)
EXTENDS Integers, Sequences, FiniteSets, TLC

\* ---------------------------------------------------------------- bounds
MaxFrames == 3      \* longest source, in frames
MaxElapsed == 2     \* largest reading of time.time() - start_time, in ticks
SrcW == 2           \* width of the frames of the source
SrcH == 2           \* height of the same

\* ------------------------------------------------------- program constants
TargetW == 540
TargetH == 380
KeyMask == 255      \* 0xFF
KeyQ == 113         \* ord('q')

Names == {"original", "gray", "hls", "hsv", "thresh", "laplacian", "blur", "equalized"}
Others == Names \ {"original"}

\* imshow calls of lines 183-190, in order: <<window title, key of processed>>
DisplayOrder ==
  << <<"Original Frame", "original">>,
     <<"Grayscale", "gray">>,
     <<"HLS Color Space", "hls">>,
     <<"HSV Color Space", "hsv">>,
     <<"Adaptive Threshold", "thresh">>,
     <<"Laplacian Edge", "laplacian">>,
     <<"Gaussian Blur", "blur">>,
     <<"Histogram Equalized", "equalized">> >>

Titles == {DisplayOrder[i][1] : i \in 1..Len(DisplayOrder)}

\* values waitKey(25) can return: no key, 'q', 'Q', 'a', 'q' with a modifier bit
Keys == {-1, 113, 81, 97, 369}

\* readings of time.time() - start_time (the wall clock may step back); 8
\* is a reading at which the throughput of one frame is a double half way
\* between two hundredths
TieElapsed == 8
ElapsedVals == (-1..MaxElapsed) \cup {TieElapsed}

NoFrame == [src |-> 0, kind |-> "none", w |-> 0, h |-> 0, ch |-> 0, text |-> <<>>]
NoDict == <<>>
NoHandle == [made |-> FALSE, ok |-> FALSE, opened |-> FALSE, pos |-> 0]
NoWriter == [made |-> FALSE, ok |-> FALSE, opened |-> FALSE, frames |-> <<>>]
Zero == [num |-> 0, den |-> 1]
DivFault == [num |-> 0, den |-> 0]

VARIABLES
  pc,            \* position of the single control flow
  exc,           \* the exception raised, "none" if none
  pathExists,    \* os.path.exists(video_path)
  nFrames,       \* number of frames the source yields
  metaFrames,    \* CAP_PROP_FRAME_COUNT of the container
  probe,         \* the VideoCapture of check_video_file
  cap,           \* the VideoCapture of main
  out,           \* the VideoWriter of main
  windows,       \* title -> image last shown (NoFrame: no such window)
  frame,         \* index of the frame last returned by cap.read, 0 if none
  frame_count,
  total_frames,
  elapsed_time,
  current_fps,
  processed,     \* name -> buffer id (the dict process_frame returns)
  heap,          \* buffer id -> image
  di,            \* index of the next imshow call of the iteration
  log,           \* entries of video_processing.log
  console,       \* lines printed
  intAt,         \* frame_count at which the interrupt was observed, 0 if none
  iterations,    \* number of times the body of the loop of line 146 was entered
  px             \* process_frame called on pixels, twice on one frame: the
                 \* arrays in memory, the locals and the dict of the call,
                 \* the outputs of the first call and the step reached

vars == <<pc, exc, pathExists, nFrames, metaFrames, probe, cap, out, windows,
          frame, frame_count, total_frames, elapsed_time, current_fps,
          processed, heap, di, log, console, intAt, iterations, px>>

file == <<pathExists, nFrames, metaFrames>>
locals == <<frame, frame_count, total_frames, elapsed_time, current_fps, processed, heap, di>>
io == <<log, console>>

BufIds == 1..8

\* an array of pixels: its shape, its pixels in row-major order and the
\* texts drawn on it
NoImage == [w |-> 0, h |-> 0, d |-> <<>>, text |-> <<>>]

\* array ids of the pixel model: 0 is the argument, then eight per call
PixIds == 0..(2 * Cardinality(Names))
NoPix == [stage |-> "off", call |-> 0, size |-> <<0, 0>>, frame |-> NoImage, arg |-> 0,
          mem |-> [i \in PixIds |-> NoImage], loc |-> <<>>, dict |-> <<>>, first |-> <<>>]

Init ==
  /\ pc = "check"
  /\ exc = "none"
  /\ pathExists \in BOOLEAN
  /\ nFrames \in 0..MaxFrames
  /\ metaFrames \in 0..MaxFrames
  /\ probe = NoHandle
  /\ cap = NoHandle
  /\ out = NoWriter
  /\ windows = [t \in Titles |-> NoFrame]
  /\ frame = 0
  /\ frame_count = 0
  /\ total_frames = 0
  /\ elapsed_time = 0
  /\ current_fps = Zero
  /\ processed = NoDict
  /\ heap = [b \in BufIds |-> NoFrame]
  /\ di = 1
  /\ log = <<>>
  /\ console = <<>>
  /\ intAt = 0
  /\ iterations = 0
  /\ px = NoPix

\* ------------------------------------------------------------- OpenCV model
\* cv2.VideoCapture(path): a handle, opened or not
VideoCapture(ok) == [made |-> TRUE, ok |-> ok, opened |-> ok, pos |-> 0]

\* cap.release() / out.release(): closes the handle, a no-op on a closed one
Release(h) == IF h.opened THEN [h EXCEPT !.opened = FALSE] ELSE h

\* cv2.VideoWriter(path, fourcc, fps, size): a handle, opened or not; frames
\* are the frames handed to write, which an encoder that is not open drops
VideoWriter(ok) == [made |-> TRUE, ok |-> ok, opened |-> ok, frames |-> <<>>]

\* cv2.destroyAllWindows()
DestroyAllWindows(ws) == [t \in DOMAIN ws |-> NoFrame]

\* cap.read(): <<ret, frame index>>
Read_offbyone(h, n) == IF h.opened /\ h.pos + 1 < n THEN <<TRUE, h.pos + 1>> ELSE <<FALSE, 0>>
Read_first(h, n) == IF h.opened /\ h.pos < n THEN <<TRUE, 1>> ELSE <<FALSE, 0>>
Read_extra(h, n) == IF h.opened /\ h.pos <= n THEN <<TRUE, h.pos + 1>> ELSE <<FALSE, 0>>
Read(h, n) == IF h.opened /\ h.pos < n THEN <<TRUE, h.pos + 1>> ELSE <<FALSE, 0>>

\* cv2.putText(img, text, ...): draws on the buffer it is given, in place
PutText(hp, b, text) == [hp EXCEPT ![b] = [@ EXCEPT !.text = Append(@, text)]]

\* waitKey(25) & 0xFF == ord('q')
IsQuit(key) == (key % (KeyMask + 1)) = KeyQ

\* frame_count / elapsed_time is the double nearest to the quotient. FloatDir
\* tells how that double lies to the exact n / d (n, d > 0): 1 above, -1
\* below, 0 equal. The quotient is scaled into [1, 2), its 53 leading bits
\* are taken by long division and the rest is rounded to nearest, ties to
\* the even mantissa.
MantissaBits == 53

RECURSIVE ScaleUp(_, _)
ScaleUp(n, d) == IF n >= d THEN n ELSE ScaleUp(2 * n, d)

RECURSIVE ScaleDown(_, _)
ScaleDown(n, d) == IF n < 2 * d THEN d ELSE ScaleDown(n, 2 * d)

RECURSIVE TailDir(_, _, _, _)
TailDir(r, d, left, lastBit) ==
  IF left = 0
    THEN IF r = 0 THEN 0
         ELSE IF 2 * r > d THEN 1
         ELSE IF 2 * r < d THEN -1
         ELSE IF lastBit = 1 THEN 1 ELSE -1
    ELSE IF 2 * r >= d THEN TailDir(2 * r - d, d, left - 1, 1)
                       ELSE TailDir(2 * r, d, left - 1, 0)

FloatDir(n, d) ==
  LET n1 == ScaleUp(n, d)
      d1 == ScaleDown(n1, d)
  IN TailDir(n1 - d1, d1, MantissaBits - 1, 1)

\* f'{current_fps:.2f}': the hundredths of the decimal nearest to the double;
\* a double exactly half way between two goes to the even one
FormatFps(r) ==
  LET q == (100 * r.num) \div r.den
      rem == (100 * r.num) % r.den
  IN IF 2 * rem < r.den THEN q
     ELSE IF 2 * rem > r.den THEN q + 1
     ELSE LET dir == FloatDir(r.num, r.den)
          IN IF dir > 0 THEN q + 1
             ELSE IF dir < 0 THEN q
             ELSE IF q % 2 = 0 THEN q ELSE q + 1

\* a / b of Python: raises ZeroDivisionError when b = 0
Div(a, b) == IF b = 0 THEN DivFault ELSE [num |-> a, den |-> b]

\* line 160: frame_count / elapsed_time if elapsed_time > 0 else 0
Throughput_ge(fc, e) == IF e >= 0 THEN Div(fc, e) ELSE Zero
Throughput(fc, e) == IF e > 0 THEN Div(fc, e) ELSE Zero

\* number of channels of each output of process_frame
Channels(name) == IF name \in {"original", "hls", "hsv"} THEN 3 ELSE 1

\* the dict process_frame returns: every cv2 call of lines 65-89 allocates
\* its own array
ProcessedDict ==
  [n \in Names |->
     CASE n = "original" -> 1 [] n = "gray" -> 2 [] n = "hls" -> 3
       [] n = "hsv" -> 4 [] n = "thresh" -> 5 [] n = "laplacian" -> 6
       [] n = "blur" -> 7 [] n = "equalized" -> 8]

\* the frame cap.read returns: frame k of the source, at the source's size
DecodedFrame(k) ==
  [src |-> k, kind |-> "frame", w |-> SrcW, h |-> SrcH, ch |-> 3, text |-> <<>>]

\* lines 65-67, cv2.resize(frame, target_size, ...): a new array of the size asked
ResizeTo(img, size) == [img EXCEPT !.kind = "original", !.w = size[1], !.h = size[2]]

\* lines 70-89: cvtColor, adaptiveThreshold, Laplacian + convertScaleAbs,
\* GaussianBlur and equalizeHist return a new array of the shape of their input
Derived(img, n) == [img EXCEPT !.kind = n, !.ch = Channels(n), !.text = <<>>]

\* the arrays process_frame allocates for decoded frame k
ProcessFrame(k) ==
  LET resized == ResizeTo(DecodedFrame(k), <<TargetW, TargetH>>)
      gray == Derived(resized, "gray")
  IN [b \in BufIds |->
        LET n == CHOOSE m \in Names : ProcessedDict[m] = b
        IN IF n = "original" THEN resized
           ELSE IF n \in {"hls", "hsv"} THEN Derived(resized, n)
           ELSE Derived(gray, n)]

\* ------------------------------------------------------- check_video_file
\* lines 26-28
CheckExists ==
  /\ pc = "check"
  /\ IF pathExists
       THEN pc' = "probe" /\ log' = log
       ELSE pc' = "check_false" /\ log' = Append(log, <<"ERROR", "does not exist">>)
  /\ UNCHANGED <<exc, file, px, iterations, probe, cap, out, windows, locals, console, intAt>>

\* line 29
Probe ==
  /\ pc = "probe"
  /\ \E ok \in BOOLEAN : probe' = VideoCapture(ok)
  /\ pc' = "probe_check"
  /\ UNCHANGED <<exc, file, px, iterations, cap, out, windows, locals, io, intAt>>

\* lines 30-32
ProbeCheck ==
  /\ pc = "probe_check"
  /\ IF probe.opened
       THEN pc' = "probe_release" /\ log' = log
       ELSE pc' = "check_false" /\ log' = Append(log, <<"ERROR", "Failed to open">>)
  /\ UNCHANGED <<exc, file, px, iterations, probe, cap, out, windows, locals, console, intAt>>

\* lines 33-34
ProbeRelease_leak ==
  /\ pc = "probe_release"
  /\ pc' = "open"
  /\ UNCHANGED <<exc, file, px, iterations, probe, cap, out, windows, locals, io, intAt>>

ProbeRelease ==
  /\ pc = "probe_release"
  /\ probe' = Release(probe)
  /\ pc' = "open"
  /\ UNCHANGED <<exc, file, px, iterations, cap, out, windows, locals, io, intAt>>

\* ------------------------------------------------------------------- main
\* lines 109-111, check_video_file returned False
CheckFailed_noreturn ==
  /\ pc = "check_false"
  /\ console' = Append(console, <<"Error: Cannot access video file">>)
  /\ pc' = "open"
  /\ UNCHANGED <<exc, file, px, iterations, probe, cap, out, windows, locals, log, intAt>>

CheckFailed_fallthrough ==
  /\ pc = "check_false"
  /\ console' = Append(console, <<"Error: Cannot access video file">>)
  /\ pc' = "complete"
  /\ UNCHANGED <<exc, file, px, iterations, probe, cap, out, windows, locals, log, intAt>>

CheckFailed ==
  /\ pc = "check_false"
  /\ console' = Append(console, <<"Error: Cannot access video file">>)
  /\ pc' = "returned"
  /\ UNCHANGED <<exc, file, px, iterations, probe, cap, out, windows, locals, log, intAt>>

\* line 114
Open ==
  /\ pc = "open"
  /\ \E ok \in BOOLEAN : cap' = VideoCapture(ok)
  /\ pc' = "props"
  /\ UNCHANGED <<exc, file, px, iterations, probe, out, windows, locals, io, intAt>>

\* lines 117-122
Props ==
  /\ pc = "props"
  /\ total_frames' = IF cap.opened THEN metaFrames ELSE 0
  /\ log' = Append(log, <<"INFO", "Video loaded", total_frames'>>)
  /\ pc' = "writer"
  /\ UNCHANGED <<exc, file, px, iterations, probe, cap, out, windows, frame, frame_count,
                 elapsed_time, current_fps, processed, heap, di, console, intAt>>

\* line 125, initialize_video_writer: the result is not tested for isOpened
Writer ==
  /\ pc = "writer"
  /\ \E ok \in BOOLEAN : out' = VideoWriter(ok)
  /\ pc' = "start"
  /\ UNCHANGED <<exc, file, px, iterations, probe, cap, windows, locals, io, intAt>>

\* line 128
Start ==
  /\ pc = "start"
  /\ console' = Append(console, <<"Downloading video">>)
  /\ pc' = "sleep10"
  /\ UNCHANGED <<exc, file, px, iterations, probe, cap, out, windows, locals, log, intAt>>

\* line 129, time.sleep(10) returns
Sleep10 ==
  /\ pc = "sleep10"
  /\ pc' = "banner"
  /\ UNCHANGED <<exc, file, px, iterations, probe, cap, out, windows, locals, io, intAt>>

\* line 131
Banner ==
  /\ pc = "banner"
  /\ console' = Append(console, <<"Processing Video">>)
  /\ pc' = "sleep15"
  /\ UNCHANGED <<exc, file, px, iterations, probe, cap, out, windows, locals, log, intAt>>

\* line 132, time.sleep(15) returns
Sleep15 ==
  /\ pc = "sleep15"
  /\ pc' = "counters"
  /\ UNCHANGED <<exc, file, px, iterations, probe, cap, out, windows, locals, io, intAt>>

\* lines 135-143
Counters ==
  /\ pc = "counters"
  /\ frame_count' = 0
  /\ pc' = "loop"
  /\ UNCHANGED <<exc, file, px, iterations, probe, cap, out, windows, frame, total_frames,
                 elapsed_time, current_fps, processed, heap, di, io, intAt>>

\* line 146
Loop ==
  /\ pc = "loop"
  /\ IF cap.opened
       THEN pc' = "read" /\ iterations' = iterations + 1
       ELSE pc' = "relcap" /\ iterations' = iterations
  /\ UNCHANGED <<exc, file, px, probe, cap, out, windows, locals, io, intAt>>

\* lines 148-151
ReadFrame_countfirst ==
  /\ pc = "read"
  /\ LET r == Read(cap, nFrames)
     IN IF r[1]
          THEN /\ cap' = [cap EXCEPT !.pos = @ + 1]
               /\ frame' = r[2]
               /\ log' = log
               /\ pc' = "count"
               /\ frame_count' = frame_count
          ELSE /\ log' = Append(log, <<"INFO", "End of video reached">>)
               /\ pc' = "relcap"
               /\ frame_count' = frame_count + 1
               /\ UNCHANGED <<cap, frame>>
  /\ UNCHANGED <<exc, file, px, iterations, probe, out, windows, total_frames,
                 elapsed_time, current_fps, processed, heap, di, console, intAt>>

ReadFrame ==
  /\ pc = "read"
  /\ LET r == Read(cap, nFrames)
     IN IF r[1]
          THEN /\ cap' = [cap EXCEPT !.pos = @ + 1]
               /\ frame' = r[2]
               /\ log' = log
               /\ pc' = "count"
          ELSE /\ log' = Append(log, <<"INFO", "End of video reached">>)
               /\ pc' = "relcap"
               /\ UNCHANGED <<cap, frame>>
  /\ UNCHANGED <<exc, file, px, iterations, probe, out, windows, frame_count, total_frames,
                 elapsed_time, current_fps, processed, heap, di, console, intAt>>

\* line 153
Count ==
  /\ pc = "count"
  /\ frame_count' = frame_count + 1
  /\ pc' = "process"
  /\ UNCHANGED <<exc, file, px, iterations, probe, cap, out, windows, frame, total_frames,
                 elapsed_time, current_fps, processed, heap, di, io, intAt>>

\* line 156
Process ==
  /\ pc = "process"
  /\ processed' = ProcessedDict
  /\ heap' = ProcessFrame(frame)
  /\ pc' = "stats"
  /\ UNCHANGED <<exc, file, px, iterations, probe, cap, out, windows, frame, frame_count,
                 total_frames, elapsed_time, current_fps, di, io, intAt>>

\* lines 159-160
Stats ==
  /\ pc = "stats"
  /\ \E e \in ElapsedVals :
       /\ elapsed_time' = e
       /\ LET r == Throughput(frame_count, e)
          IN IF r = DivFault
               THEN pc' = "raised" /\ exc' = "ZeroDivisionError" /\ current_fps' = current_fps
               ELSE pc' = "annot1" /\ exc' = exc /\ current_fps' = r
  /\ UNCHANGED <<file, px, iterations, probe, cap, out, windows, frame, frame_count,
                 total_frames, processed, heap, di, io, intAt>>

\* lines 163-171
Annotate1 ==
  /\ pc = "annot1"
  /\ heap' = PutText(heap, processed["original"], <<"Frame", frame_count, total_frames>>)
  /\ pc' = "annot2"
  /\ UNCHANGED <<exc, file, px, iterations, probe, cap, out, windows, frame, frame_count,
                 total_frames, elapsed_time, current_fps, processed, di, io, intAt>>

\* lines 172-180
Annotate2_gray ==
  /\ pc = "annot2"
  /\ heap' = PutText(heap, processed["gray"], <<"FPS", FormatFps(current_fps)>>)
  /\ pc' = "show"
  /\ di' = 1
  /\ UNCHANGED <<exc, file, px, iterations, probe, cap, out, windows, frame, frame_count,
                 total_frames, elapsed_time, current_fps, processed, io, intAt>>

Annotate2 ==
  /\ pc = "annot2"
  /\ heap' = PutText(heap, processed["original"], <<"FPS", FormatFps(current_fps)>>)
  /\ pc' = "show"
  /\ di' = 1
  /\ UNCHANGED <<exc, file, px, iterations, probe, cap, out, windows, frame, frame_count,
                 total_frames, elapsed_time, current_fps, processed, io, intAt>>

\* lines 183-190, one imshow call
Show ==
  /\ pc = "show"
  /\ windows' = [windows EXCEPT ![DisplayOrder[di][1]] = heap[processed[DisplayOrder[di][2]]]]
  /\ IF di = Len(DisplayOrder)
       THEN pc' = "write" /\ di' = 1
       ELSE pc' = "show" /\ di' = di + 1
  /\ UNCHANGED <<exc, file, px, iterations, probe, cap, out, frame, frame_count, total_frames,
                 elapsed_time, current_fps, processed, heap, io, intAt>>

\* line 193
Write_dup ==
  /\ pc = "write"
  /\ out' = [out EXCEPT !.frames = Append(Append(@, heap[processed["gray"]]), heap[processed["original"]])]
  /\ pc' = "logframe"
  /\ UNCHANGED <<exc, file, px, iterations, probe, cap, windows, locals, io, intAt>>

Write ==
  /\ pc = "write"
  /\ out' = [out EXCEPT !.frames = Append(@, heap[processed["original"]])]
  /\ pc' = "logframe"
  /\ UNCHANGED <<exc, file, px, iterations, probe, cap, windows, locals, io, intAt>>

\* line 196
LogFrame_nopoll ==
  /\ pc = "logframe"
  /\ log' = Append(log, <<"INFO", "Processed frame", frame_count>>)
  /\ pc' = "loop"
  /\ UNCHANGED <<exc, file, px, iterations, probe, cap, out, windows, locals, console, intAt>>

LogFrame ==
  /\ pc = "logframe"
  /\ log' = Append(log, <<"INFO", "Processed frame", frame_count>>)
  /\ pc' = "waitkey"
  /\ UNCHANGED <<exc, file, px, iterations, probe, cap, out, windows, locals, console, intAt>>

\* lines 199-201
WaitKey_nobreak ==
  /\ pc = "waitkey"
  /\ \E key \in Keys :
       IF IsQuit(key)
         THEN /\ log' = Append(log, <<"INFO", "User interrupted video processing">>)
              /\ intAt' = IF intAt = 0 THEN frame_count ELSE intAt
              /\ pc' = "loop"
         ELSE /\ pc' = "loop"
              /\ UNCHANGED <<log, intAt>>
  /\ UNCHANGED <<exc, file, px, iterations, probe, cap, out, windows, locals, console>>

WaitKey ==
  /\ pc = "waitkey"
  /\ \E key \in Keys :
       IF IsQuit(key)
         THEN /\ log' = Append(log, <<"INFO", "User interrupted video processing">>)
              /\ intAt' = frame_count
              /\ pc' = "relcap"
         ELSE /\ pc' = "loop"
              /\ UNCHANGED <<log, intAt>>
  /\ UNCHANGED <<exc, file, px, iterations, probe, cap, out, windows, locals, console>>

\* line 204
RelCap ==
  /\ pc = "relcap"
  /\ cap' = Release(cap)
  /\ pc' = "relout"
  /\ UNCHANGED <<exc, file, px, iterations, probe, out, windows, locals, io, intAt>>

\* line 205
RelOut_loop ==
  /\ pc = "relout"
  /\ out' = Release(out)
  /\ pc' = IF frame_count < nFrames THEN "loop" ELSE "destroy"
  /\ UNCHANGED <<exc, file, px, iterations, probe, cap, windows, locals, io, intAt>>

RelOut ==
  /\ pc = "relout"
  /\ out' = Release(out)
  /\ pc' = "destroy"
  /\ UNCHANGED <<exc, file, px, iterations, probe, cap, windows, locals, io, intAt>>

\* line 206
Destroy ==
  /\ pc = "destroy"
  /\ windows' = DestroyAllWindows(windows)
  /\ pc' = "complete"
  /\ UNCHANGED <<exc, file, px, iterations, probe, cap, out, locals, io, intAt>>

\* lines 209-210
Complete ==
  /\ pc = "complete"
  /\ log' = Append(log, <<"INFO", "Video processing completed">>)
  /\ pc' = "confirm"
  /\ UNCHANGED <<exc, file, px, iterations, probe, cap, out, windows, locals, console, intAt>>

\* line 210, and main returns
Confirm ==
  /\ pc = "confirm"
  /\ console' = Append(console, <<"Processed video saved as">>)
  /\ pc' = "returned"
  /\ UNCHANGED <<exc, file, px, iterations, probe, cap, out, windows, locals, log, intAt>>

\* ------------------------------------------------------------- top level
\* the OpenCV calls that can raise: constructors, isOpened, get, reads,
\* transforms, drawing, display, encode, key poll, destroyAllWindows (the
\* release calls do not raise)
FaultPoints == {"probe", "probe_check", "open", "props", "writer", "loop", "read",
                "process", "annot1", "annot2", "show", "write", "waitkey", "destroy"}

\* an exception raised by the call at pc leaves main at once (no handler and
\* no finally clause inside main)
Fault ==
  /\ pc \in FaultPoints
  /\ exc' = pc
  /\ pc' = "raised"
  /\ UNCHANGED <<file, px, iterations, probe, cap, out, windows, locals, io, intAt>>

\* the finaliser of a cv2.VideoCapture or cv2.VideoWriter that Python runs
\* when the last reference to the object is dropped: the destructor releases
Finalize(h) == IF h.opened THEN [h EXCEPT !.opened = FALSE] ELSE h

\* Ctrl-C: a KeyboardInterrupt is raised wherever the control flow is. It is
\* not an Exception, so the handler of line 216 does not catch it: the
\* interpreter reports it on stderr and shuts down, which finalises the
\* handles that exist; the windows are not destroyed by the program
Sigint ==
  /\ pc \notin {"exit", "uncaught", "pixels"}
  /\ exc' = "KeyboardInterrupt"
  /\ probe' = Finalize(probe)
  /\ cap' = Finalize(cap)
  /\ out' = Finalize(out)
  /\ pc' = "uncaught"
  /\ UNCHANGED <<file, px, iterations, windows, locals, io, intAt>>

\* lines 214-215, main() returned
ReturnNormally ==
  /\ pc = "returned"
  /\ pc' = "exit"
  /\ UNCHANGED <<exc, file, px, iterations, probe, cap, out, windows, locals, io, intAt>>

\* lines 216-217
HandlerLog ==
  /\ pc = "raised"
  /\ log' = Append(log, <<"ERROR", "An error occurred", exc>>)
  /\ pc' = "handled"
  /\ UNCHANGED <<exc, file, px, iterations, probe, cap, out, windows, locals, console, intAt>>

\* line 218
HandlerPrint_silent ==
  /\ pc = "handled"
  /\ pc' = "printed"
  /\ UNCHANGED <<exc, file, px, iterations, probe, cap, out, windows, locals, io, intAt>>

HandlerPrint ==
  /\ pc = "handled"
  /\ console' = Append(console, <<"An error occurred", exc>>)
  /\ pc' = "printed"
  /\ UNCHANGED <<exc, file, px, iterations, probe, cap, out, windows, locals, log, intAt>>

\* the end of the except clause, which unbinds e: the traceback goes, with
\* it the frames of main and check_video_file and the last references to the
\* handles they hold, which are finalised; the windows are left as they are;
\* then the process ends
HandlerEnd ==
  /\ pc = "printed"
  /\ probe' = Finalize(probe)
  /\ cap' = Finalize(cap)
  /\ out' = Finalize(out)
  /\ pc' = "exit"
  /\ UNCHANGED <<exc, file, px, iterations, windows, locals, io, intAt>>

Next ==
  \/ CheckExists \/ Probe \/ ProbeCheck \/ ProbeRelease \/ CheckFailed
  \/ Open \/ Props \/ Writer \/ Start \/ Sleep10 \/ Banner \/ Sleep15 \/ Counters \/ Loop \/ ReadFrame \/ Count
  \/ Process \/ Stats \/ Annotate1 \/ Annotate2 \/ Show \/ Write
  \/ LogFrame \/ WaitKey \/ RelCap \/ RelOut \/ Destroy \/ Complete \/ Confirm
  \/ Fault \/ Sigint \/ ReturnNormally \/ HandlerLog \/ HandlerPrint \/ HandlerEnd

Spec == Init /\ [][Next]_vars

\* ------------------------------------------- process_frame on pixels
\* An image is a width, a height and its pixels in row-major order; a colour
\* pixel is <<b, g, r>>, a grey pixel a number 0..255.
PixW == 2      \* width of the frames and of the target size of the pixel model
PixH == 2      \* height of the same

BlockSize == 11    \* line 78
ThreshC == 2       \* line 78
MaxVal == 255      \* line 78
GrayB == 1868      \* BGR2GRAY weights of cvtColor, in 1/16384
GrayG == 9617
GrayR == 4899
GrayScale == 16384

Black == <<0, 0, 0>>
White == <<255, 255, 255>>
Blue == <<255, 0, 0>>
Palette == {Black, Blue, White}

At(img, x, y) == img.d[(y - 1) * img.w + x]
Clamp(v, lo, hi) == IF v < lo THEN lo ELSE IF v > hi THEN hi ELSE v
Uniform(w, h, v) == [w |-> w, h |-> h, d |-> [i \in 1..(w * h) |-> v], text |-> <<>>]
XOf(img, i) == ((i - 1) % img.w) + 1
YOf(img, i) == ((i - 1) \div img.w) + 1

RECURSIVE SumTo(_, _)
SumTo(f, n) == IF n = 0 THEN 0 ELSE f[n] + SumTo(f, n - 1)

\* n / d rounded to the nearest integer, ties to the even one (cvRound)
RoundHalfEven(n, d) ==
  LET q == n \div d
      r == n % d
  IN IF 2 * r < d THEN q
     ELSE IF 2 * r > d THEN q + 1
     ELSE IF q % 2 = 0 THEN q ELSE q + 1

\* line 65, cv2.resize(frame, target_size, INTER_CUBIC): a new array; equal
\* to the frame when the frame has the target size already; of a one-pixel
\* frame, every bicubic tap reads that pixel and the weights sum to one
Resize(img, size) ==
  IF <<img.w, img.h>> = size THEN img ELSE Uniform(size[1], size[2], img.d[1])

\* line 70, cv2.cvtColor(resized_frame, COLOR_BGR2GRAY)
BgrToGray(img) ==
  [img EXCEPT !.d = [i \in DOMAIN img.d |->
     (img.d[i][1] * GrayB + img.d[i][2] * GrayG + img.d[i][3] * GrayR
        + GrayScale \div 2) \div GrayScale]]

\* number of the taps of a BlockSize window centred at c that land on column
\* (or row) t of an axis of length n, the border being replicated
Taps(c, t, n) ==
  Cardinality({k \in -(BlockSize \div 2)..(BlockSize \div 2) : Clamp(c + k, 1, n) = t})

\* the normalised BlockSize x BlockSize box filter of adaptiveThreshold at pixel i
BoxMean(img, i) ==
  LET x == XOf(img, i)
      y == YOf(img, i)
      wsum == SumTo([j \in DOMAIN img.d |->
                Taps(x, XOf(img, j), img.w) * Taps(y, YOf(img, j), img.h) * img.d[j]],
                Len(img.d))
  IN RoundHalfEven(wsum, BlockSize * BlockSize)

\* lines 77-79, cv2.adaptiveThreshold(gray, 255, ADAPTIVE_THRESH_MEAN_C,
\* THRESH_BINARY_INV, 11, 2): MaxVal where src - mean <= -C, else 0
AdaptiveThreshold_binary(img) ==
  [img EXCEPT !.d = [i \in DOMAIN img.d |->
     IF img.d[i] - BoxMean(img, i) > -ThreshC THEN MaxVal ELSE 0]]

AdaptiveThreshold(img) ==
  [img EXCEPT !.d = [i \in DOMAIN img.d |->
     IF img.d[i] - BoxMean(img, i) <= -ThreshC THEN MaxVal ELSE 0]]

\* line 89, cv2.equalizeHist(gray): with m the least value present, an image
\* of that single value is returned as it is; otherwise value v goes to
\* 255 * #{pixels in (m, v]} / #{pixels > m}, rounded
EqualizeHist(img) ==
  LET m == CHOOSE v \in {img.d[i] : i \in DOMAIN img.d} :
             \A i \in DOMAIN img.d : v <= img.d[i]
      above == Cardinality({i \in DOMAIN img.d : img.d[i] > m})
      upTo(v) == Cardinality({i \in DOMAIN img.d : img.d[i] > m /\ img.d[i] <= v})
  IN IF above = 0 THEN img
     ELSE [img EXCEPT !.d = [i \in DOMAIN img.d |->
             RoundHalfEven(255 * upTo(img.d[i]), above)]]

\* lines 73-74, 82-83 and 86: cvtColor to HLS and HSV, Laplacian with
\* convertScaleAbs, GaussianBlur. Their pixel values are not computed: pixel
\* i of the result is the operation applied at i to the pixels of the input
Opaque(op, img) == [img EXCEPT !.d = [i \in DOMAIN img.d |-> <<op, i, img.d>>]]

\* the frames the pixel model calls process_frame with: every frame of the
\* target size over the palette, and every one-pixel frame
PixFrames ==
  {[w |-> PixW, h |-> PixH, d |-> f, text |-> <<>>] : f \in [1..(PixW * PixH) -> Palette]}
    \cup {Uniform(1, 1, c) : c \in Palette}

InitPix ==
  /\ pc = "pixels"
  /\ exc = "none"
  /\ pathExists = FALSE
  /\ nFrames = 0
  /\ metaFrames = 0
  /\ probe = NoHandle
  /\ cap = NoHandle
  /\ out = NoWriter
  /\ windows = [t \in Titles |-> NoFrame]
  /\ frame = 0
  /\ frame_count = 0
  /\ total_frames = 0
  /\ elapsed_time = 0
  /\ current_fps = Zero
  /\ processed = NoDict
  /\ heap = [b \in BufIds |-> NoFrame]
  /\ di = 1
  /\ log = <<>>
  /\ console = <<>>
  /\ intAt = 0
  /\ iterations = 0
  /\ \E f \in PixFrames :
       px = [NoPix EXCEPT !.stage = "resize", !.call = 1, !.size = <<PixW, PixH>>,
                          !.frame = f, !.mem[NoPix.arg] = f]

main == <<pc, exc, file, probe, cap, out, windows, locals, io, intAt, iterations>>

\* f with key k bound to v
Bind(f, k, v) == [n \in DOMAIN f \cup {k} |-> IF n = k THEN v ELSE f[n]]

\* the array a local of process_frame is bound to, and the array the dict
\* returned holds under a name
Local(n) == px.mem[px.loc[n]]
Output(n) == px.mem[px.dict[n]]

\* the result of a cv2 call is a new array, bound to a local
PixStore(n, img, next) ==
  LET id == Cardinality(Names) * (px.call - 1) + ProcessedDict[n]
  IN px' = [px EXCEPT !.mem[id] = img, !.loc = Bind(px.loc, n, id), !.stage = next]

\* lines 65-67
PixResize_alias ==
  /\ px.stage = "resize"
  /\ IF <<px.mem[px.arg].w, px.mem[px.arg].h>> = px.size
       THEN px' = [px EXCEPT !.loc = Bind(px.loc, "original", px.arg), !.stage = "gray"]
       ELSE PixStore("original", Resize(px.mem[px.arg], px.size), "gray")
  /\ UNCHANGED main

PixResize ==
  /\ px.stage = "resize"
  /\ PixStore("original", Resize(px.mem[px.arg], px.size), "gray")
  /\ UNCHANGED main

\* line 70
PixGray ==
  /\ px.stage = "gray"
  /\ PixStore("gray", BgrToGray(Local("original")), "hls")
  /\ UNCHANGED main

\* line 73
PixHls ==
  /\ px.stage = "hls"
  /\ PixStore("hls", Opaque("hls", Local("original")), "hsv")
  /\ UNCHANGED main

\* line 74
PixHsv ==
  /\ px.stage = "hsv"
  /\ PixStore("hsv", Opaque("hsv", Local("original")), "thresh")
  /\ UNCHANGED main

\* lines 77-79
PixThresh ==
  /\ px.stage = "thresh"
  /\ PixStore("thresh", AdaptiveThreshold(Local("gray")), "laplacian")
  /\ UNCHANGED main

\* lines 82-83
PixLaplacian ==
  /\ px.stage = "laplacian"
  /\ PixStore("laplacian", Opaque("laplacian", Local("gray")), "blur")
  /\ UNCHANGED main

\* line 86
PixBlur ==
  /\ px.stage = "blur"
  /\ PixStore("blur", Opaque("blur", Local("gray")), "equalize")
  /\ UNCHANGED main

\* line 89
PixEqualize ==
  /\ px.stage = "equalize"
  /\ PixStore("equalized", EqualizeHist(Local("gray")), "return")
  /\ UNCHANGED main

\* lines 91-100: the dict of the eight locals is returned; the outputs of the
\* first call are kept aside as they are at its return
PixReturn ==
  /\ px.stage = "return"
  /\ LET dict == [n \in Names |-> px.loc[n]]
     IN px' = [px EXCEPT !.dict = dict,
                         !.first = IF px.call = 1 THEN [n \in Names |-> px.mem[dict[n]]] ELSE @,
                         !.stage = IF px.call = 1 THEN "annotate" ELSE "done"]
  /\ UNCHANGED main

\* lines 163-180, what main does with the dict between two calls: both
\* putText calls draw on processed['original']
PixAnnotate ==
  /\ px.stage = "annotate"
  /\ px' = [px EXCEPT !.mem = PutText(PutText(@, px.dict["original"], <<"Frame">>),
                                      px.dict["original"], <<"FPS">>),
                      !.stage = "again"]
  /\ UNCHANGED main

\* line 156 once more, process_frame(frame) with the same frame
PixAgain ==
  /\ px.stage = "again"
  /\ px' = [px EXCEPT !.call = 2, !.loc = <<>>, !.stage = "resize"]
  /\ UNCHANGED main

NextPix ==
  \/ PixResize \/ PixGray \/ PixHls \/ PixHsv \/ PixThresh \/ PixLaplacian
  \/ PixBlur \/ PixEqualize \/ PixReturn \/ PixAnnotate \/ PixAgain

SpecPix == InitPix /\ [][NextPix]_vars

\* main's calls of process_frame together with the calls of the pixel model
SpecTransform == (Init \/ InitPix) /\ [][Next \/ NextPix]_vars

\* the single control flow is never suspended for ever: an enabled step is taken
FairSpec == Spec /\ WF_vars(Next)

\* ------------------------------------------------------ observations
Occurrences(l, e) == Cardinality({i \in DOMAIN l : l[i] = e})
HasEntry(l, e) == \E i \in DOMAIN l : l[i] = e

EosEntry == <<"INFO", "End of video reached">>
IntEntry == <<"INFO", "User interrupted video processing">>
ErrEntry == <<"ERROR", "An error occurred", exc>>
ErrLine == <<"An error occurred", exc>>

\* the "Processed frame k" entries of the log, in order
ProcessedEntries == SelectSeq(log, LAMBDA e : e[2] = "Processed frame")

\* the run states of the orchestrator, read off what the run has reported
ValidationFailed == HasEntry(console, <<"Error: Cannot access video file">>)
Faulted == exc # "none"
Completed == HasEntry(log, EosEntry)
Interrupted == HasEntry(log, IntEntry)
Failed == ValidationFailed \/ Faulted

NoWindows == \A t \in Titles : windows[t] = NoFrame

\* ----------------------------------------------------------------- claims

\* C1 (as claimed): at the end of the process of a run that constructed the
\* decoder and the encoder, the decoder and the encoder are closed and no
\* window is left, whatever the exit path.
C1_ReleasedOnEveryExit ==
  (pc = "exit" /\ cap.made /\ out.made)
    => (~cap.opened /\ ~out.opened /\ NoWindows)

\* C2: a source whose decoder opened and that yields nFrames frames, with no
\* interrupt and no fault, ends Completed with nFrames frames written, the
\* log entries "Processed frame 1..nFrames" and one end-of-stream entry.
C2_CleanRun ==
  (pc = "exit" /\ cap.ok /\ ~Faulted /\ intAt = 0)
    => /\ Completed /\ ~Interrupted /\ ~Failed
       /\ Len(out.frames) = nFrames
       /\ Len(ProcessedEntries) = nFrames
       /\ \A i \in 1..nFrames : ProcessedEntries[i] = <<"INFO", "Processed frame", i>>
       /\ Occurrences(log, EosEntry) = 1

C2_Witness ==
  pc = "exit" /\ cap.ok /\ ~Faulted /\ intAt = 0 /\ nFrames >= 2 /\ Completed

\* C3: once the interrupt is observed at the poll of iteration k, the run is
\* Interrupted, exactly k frames were decoded and exactly k handed to the
\* encoder (none after the interrupt), nothing but destroyAllWindows can
\* raise any more, and when the process ends decoder and encoder are closed.
C3_Interrupt ==
  intAt > 0
    => /\ 1 <= intAt /\ intAt <= nFrames
       /\ Interrupted /\ ~Completed /\ ~ValidationFailed
       /\ frame_count = intAt
       /\ cap.pos = intAt
       /\ Len(out.frames) = intAt
       /\ \A i \in 1..intAt : out.frames[i].src = i
       /\ exc \in {"none", "destroy", "KeyboardInterrupt"}
       /\ pc \in {"raised", "handled", "printed", "exit", "uncaught"} => (~cap.opened /\ ~out.opened)

C3_Witness ==
  pc = "exit" /\ intAt = 2 /\ nFrames > 2 /\ ~Faulted /\ ~cap.opened /\ ~out.opened

\* C4: after a failed validation main has returned: no decoder and no
\* encoder was constructed by main, no frame was decoded, shown or written,
\* the counter and the throughput are untouched and no exception was raised
\* in the program.
C4_ValidationFailed ==
  ValidationFailed
    => /\ pc \in {"returned", "exit", "uncaught"}
       /\ exc \in {"none", "KeyboardInterrupt"}
       /\ ~cap.made /\ ~out.made
       /\ frame = 0 /\ frame_count = 0
       /\ processed = NoDict
       /\ NoWindows
       /\ out.frames = <<>>
       /\ elapsed_time = 0 /\ current_fps = Zero
       /\ ProcessedEntries = <<>>

C4_Witness ==
  ValidationFailed /\ pc = "exit" /\ pathExists /\ probe.made /\ ~Faulted

\* C5 (as claimed): whatever is raised goes to the top-level handler and
\* nowhere else; when the process ends it was reported exactly once in the
\* log and exactly once on the console.
C5_FaultCaught ==
  Faulted
    => /\ pc \in {"raised", "handled", "printed", "exit"}
       /\ pc = "raised" => (Occurrences(log, ErrEntry) = 0 /\ Occurrences(console, ErrLine) = 0)
       /\ pc = "exit" => (Occurrences(log, ErrEntry) = 1 /\ Occurrences(console, ErrLine) = 1)

\* C5 (amended): an exception of class Exception goes to the top-level
\* handler and nowhere else, which reports it once in the log and then once
\* on the console, so that a process that ends at the top level has reported
\* it exactly once in each; nothing is reported when nothing was raised. A
\* KeyboardInterrupt is not caught: the process ends with it and it is
\* reported neither in the log nor on the console; when it arrives while an
\* exception is on its way through the handler, that exception stays
\* reported as far as the handler got: not at all, in the log only, or in
\* both.
IsException == exc \notin {"none", "KeyboardInterrupt"}

\* the reports of the handler, whatever the exception they name
ErrEntries == SelectSeq(log, LAMBDA x : x[1] = "ERROR" /\ x[2] = "An error occurred")
ErrLines == SelectSeq(console, LAMBDA x : x[1] = "An error occurred")

C5_ExceptionCaught ==
  /\ IsException
       => /\ pc \in {"raised", "handled", "printed", "exit"}
          /\ pc = "raised" => (ErrEntries = <<>> /\ ErrLines = <<>>)
          /\ pc = "handled" => (ErrEntries = <<ErrEntry>> /\ ErrLines = <<>>)
          /\ pc \in {"printed", "exit"} => (ErrEntries = <<ErrEntry>> /\ ErrLines = <<ErrLine>>)
  /\ pc \in {"raised", "handled", "printed"} => IsException
  /\ exc = "none" => (ErrEntries = <<>> /\ ErrLines = <<>>)
  /\ exc = "KeyboardInterrupt" <=> pc = "uncaught"
  /\ pc = "uncaught"
       => /\ Len(ErrEntries) <= 1
          /\ Len(ErrLines) <= Len(ErrEntries)
          /\ \A i \in DOMAIN ErrEntries : ErrEntries[i][3] # "KeyboardInterrupt"
          /\ \A i \in DOMAIN ErrLines : ErrLines[i][2] = ErrEntries[i][3]

C5_Witness ==
  pc = "exit" /\ exc = "write" /\ frame_count = 2
    /\ ErrEntries = <<ErrEntry>> /\ ErrLines = <<ErrLine>>

\* C6 (as claimed): at the end of every run the number of frames written
\* equals the frame counter and the number of "Processed frame" entries.
C6_WrittenEqualsCounter ==
  pc = "exit"
    => /\ Len(out.frames) = frame_count
       /\ Len(ProcessedEntries) = frame_count

\* C6 (amended): at every point the encoder has received at least as many
\* frames as there are "Processed frame" entries and at most as many as the
\* frame counter, which is at most one more than the entries; when the
\* process ends at the top level (main returned or the handler ran) the
\* frames received equal the entries, and the counter equals both unless an
\* exception ended the run.
C6_WrittenEqualsLogged ==
  /\ Len(ProcessedEntries) <= Len(out.frames)
  /\ Len(out.frames) <= frame_count
  /\ frame_count <= Len(ProcessedEntries) + 1
  /\ pc = "exit" => Len(out.frames) = Len(ProcessedEntries)
  /\ (pc = "exit" /\ ~Faulted) => frame_count = Len(out.frames)

C6_Witness ==
  pc = "exit" /\ Faulted /\ Len(out.frames) >= 1 /\ frame_count = Len(out.frames) + 1

\* C7: the frame counter starts at 0, changes only at line 153 and then by
\* exactly +1, and counts the successful decodes: it equals the number of
\* frames read, less the one just read and not yet counted (a run killed
\* between the read and line 153 stays one short).
C7_Counter ==
  /\ frame_count = 0
  /\ [](pc = "count" => frame_count = cap.pos - 1)
  /\ [](pc \notin {"count", "uncaught"} => frame_count = cap.pos)
  /\ [](pc = "uncaught" => frame_count \in {cap.pos - 1, cap.pos})
  /\ [][/\ frame_count' >= frame_count
        /\ frame_count' # frame_count => (pc = "count" /\ frame_count' = frame_count + 1)
        /\ (pc = "count" /\ pc' = "process") => frame_count' = frame_count + 1
        /\ (pc = "count" /\ pc' # pc) => pc' \in {"process", "uncaught"}
        /\ (pc = "read" /\ pc' # "count") => frame_count' = frame_count]_vars

C7_Witness ==
  Completed /\ frame_count >= 2 /\ frame_count = nFrames

\* C8: after the throughput is computed in an iteration it is
\* frame_count / elapsed_time when elapsed_time > 0 and 0 otherwise, and no
\* ZeroDivisionError is ever raised.
C8_Throughput ==
  /\ exc # "ZeroDivisionError"
  /\ pc \in {"annot1", "annot2", "show", "write", "logframe", "waitkey"}
       => /\ elapsed_time > 0 => current_fps = [num |-> frame_count, den |-> elapsed_time]
          /\ elapsed_time <= 0 => current_fps = Zero

C8_Witness ==
  pc = "annot1" /\ elapsed_time = 0 /\ frame_count >= 1 /\ current_fps = Zero

\* C9: each annotation step changes the `original` buffer and leaves the
\* seven other outputs as they were; what is shown in the first window and
\* written to the encoder is the `original` with both overlays, and the
\* seven other windows show outputs without overlay.
C9_AnnotateOnlyOriginal ==
  /\ [](pc = "logframe"
         => /\ out.frames[Len(out.frames)] = heap[processed["original"]]
            /\ windows["Original Frame"] = heap[processed["original"]]
            /\ heap[processed["original"]].text =
                 << <<"Frame", frame_count, total_frames>>, <<"FPS", FormatFps(current_fps)>> >>
            /\ \A i \in 2..Len(DisplayOrder) :
                 /\ windows[DisplayOrder[i][1]] = heap[processed[DisplayOrder[i][2]]]
                 /\ windows[DisplayOrder[i][1]].text = <<>>
                 /\ windows[DisplayOrder[i][1]].kind = DisplayOrder[i][2])
  /\ [][(pc \in {"annot1", "annot2"} /\ pc' \in {"annot2", "show"})
          => /\ \A n \in Others : heap'[processed'[n]] = heap[processed[n]]
             /\ heap'[processed'["original"]] # heap[processed["original"]]]_vars

C9_Witness ==
  pc = "logframe" /\ frame_count >= 2 /\ Len(heap[processed["original"]].text) = 2

\* C11 (as claimed): for an all-black frame the thresh output is all 255 and
\* the equalized output is all 0.
AllBlack(img) == \A i \in DOMAIN img.d : img.d[i] = Black
AllValue(img, v) == img.w = PixW /\ img.h = PixH /\ Len(img.d) = PixW * PixH
                      /\ \A i \in DOMAIN img.d : img.d[i] = v

Returned == px.stage \in {"annotate", "done"}

C11_BlackThreshAll255 ==
  (Returned /\ AllBlack(px.frame))
    => (AllValue(Output("thresh"), 255) /\ AllValue(Output("equalized"), 0))

\* C11 (amended): for an all-black frame the thresh output is all 0 (no
\* pixel is darker than its local mean less 2) and the equalized output is
\* all 0.
C11_BlackThreshAllZero ==
  (Returned /\ AllBlack(px.frame))
    => (AllValue(Output("gray"), 0) /\ AllValue(Output("thresh"), 0)
          /\ AllValue(Output("equalized"), 0))

C11_Witness ==
  px.stage = "done" /\ AllBlack(px.frame) /\ px.frame.w = PixW /\ AllValue(Output("thresh"), 0)

\* C12: whenever process_frame has returned in main, the dict has exactly
\* the eight names, each bound to its own array of the target width and
\* height (three channels for original, hls and hsv, one for the others),
\* made from the frame just decoded and with nothing drawn on it. Called on
\* pixels, it returns the eight names bound to eight new arrays of the size
\* asked, none of them the argument; the argument is as it was, also after
\* main has drawn on the original; and a second call with the same frame,
\* made after that drawing, returns arrays equal pixel for pixel to those the
\* first call returned.
C12_EightOutputs ==
  /\ pc = "stats"
       => /\ DOMAIN processed = Names
          /\ Cardinality(Names) = 8
          /\ \A m, n \in Names : processed[m] = processed[n] => m = n
          /\ \A n \in Names :
               /\ heap[processed[n]].w = TargetW
               /\ heap[processed[n]].h = TargetH
               /\ heap[processed[n]].ch = Channels(n)
               /\ heap[processed[n]].kind = n
               /\ heap[processed[n]].src = frame
               /\ heap[processed[n]].text = <<>>
  /\ Returned
       => /\ DOMAIN px.dict = Names
          /\ \A m, n \in Names : px.dict[m] = px.dict[n] => m = n
          /\ \A n \in Names :
               /\ px.dict[n] # px.arg
               /\ Output(n).w = px.size[1]
               /\ Output(n).h = px.size[2]
               /\ Len(Output(n).d) = px.size[1] * px.size[2]
               /\ Output(n).text = <<>>
  /\ px.stage # "off" => px.mem[px.arg] = px.frame
  /\ px.stage = "done" => \A n \in Names : Output(n) = px.first[n]

C12_Witness ==
  /\ px.stage = "done"
  /\ px.call = 2
  /\ px.frame.w = PixW /\ px.frame.h = PixH
  /\ \E i, j \in DOMAIN px.frame.d : px.frame.d[i] # px.frame.d[j]
  /\ Len(px.mem[ProcessedDict["original"]].text) = 2
  /\ Output("original") = px.frame
  /\ Output("gray") = px.first["gray"]

\* C13 (as claimed): for a path that does not exist, the log and the console
\* both carry the message that names the missing file.
MissingFile == "does not exist"
Mentions(l, word) == \E i \in DOMAIN l : \E j \in DOMAIN l[i] : l[i][j] = word

C13_MissingFileOnConsoleAndLog ==
  (pc = "exit" /\ ~pathExists)
    => (Mentions(log, MissingFile) /\ Mentions(console, MissingFile))

\* C14: inside an iteration the steps follow one another in the order count,
\* transform, throughput, two overlays, eight imshow calls, write, log, key
\* poll (an exception apart); the eight outputs of the frame exist before
\* the first is shown or written; frame k is written before its key poll;
\* and a read starts only from the loop test, which is reached only from the
\* start or from a completed key poll, every earlier frame being written.
IterationOrder == <<"count", "process", "stats", "annot1", "annot2", "show",
                    "write", "logframe", "waitkey">>

C14_StepOrder ==
  /\ [](pc \in {"show", "write", "logframe", "waitkey"}
         => /\ DOMAIN processed = Names
            /\ \A n \in Names : heap[processed[n]].src = frame_count)
  /\ [](pc \in {"logframe", "waitkey"}
         => /\ Len(out.frames) = frame_count
            /\ out.frames[frame_count].src = frame_count
            /\ \A t \in Titles : windows[t].src = frame_count)
  /\ [](pc \in {"loop", "read"} => Len(out.frames) = cap.pos /\ Len(ProcessedEntries) = cap.pos)
  /\ [](pc = "show" => \A i \in 1..(di - 1) : windows[DisplayOrder[i][1]].src = frame_count)
  /\ [][/\ \A i \in 1..(Len(IterationOrder) - 1) :
             (pc = IterationOrder[i] /\ pc' # pc) => pc' \in {IterationOrder[i + 1], "raised", "uncaught"}
        /\ (pc = "show" /\ pc' = "write") => di = Len(DisplayOrder)
        /\ (pc = "show" /\ pc' = "show") => di' = di + 1
        /\ (pc = "waitkey" /\ pc' # pc) => pc' \in {"loop", "relcap", "raised", "uncaught"}
        /\ (pc' = "read" /\ pc # "read") => pc = "loop"
        /\ (pc' = "loop" /\ pc # "loop") => pc \in {"counters", "waitkey"}
        /\ (pc' = "count" /\ pc # "count") => pc = "read"]_vars

C14_Witness ==
  pc = "read" /\ cap.pos = 2 /\ Len(out.frames) = 2 /\ nFrames > 2

\* C15 (as claimed): the confirmation naming the output path is printed only
\* when the end of the stream was reached.
SavedLine == <<"Processed video saved as">>

C15_ConfirmationOnlyWhenCompleted ==
  HasEntry(console, SavedLine) => (Completed /\ ~Interrupted)

\* C15 (amended): the confirmation is printed at most once, and only by a
\* main that ran to its last line: after the end of the stream, after a
\* user interrupt, or after a loop that was skipped because the decoder did
\* not open, never after an exception raised in main and never after a
\* failed validation; and a process that ends at the top level with no
\* exception and no failed validation has printed it, whether or not the
\* encoder ever opened.
CompletedEntry == <<"INFO", "Video processing completed">>

C15_ConfirmationWhenMainEnds ==
  /\ Occurrences(console, SavedLine) <= 1
  /\ HasEntry(console, SavedLine)
       => /\ pc \in {"returned", "exit", "uncaught"}
          /\ exc \in {"none", "KeyboardInterrupt"}
          /\ ~ValidationFailed
          /\ HasEntry(log, CompletedEntry)
          /\ Completed \/ Interrupted \/ ~cap.ok
  /\ (pc \in {"returned", "exit"} /\ ~Faulted /\ ~ValidationFailed)
       => HasEntry(console, SavedLine)

C15_Witness ==
  pc = "exit" /\ Interrupted /\ ~Completed /\ HasEntry(console, SavedLine)

\* C16: decoder and encoder are closed only by lines 204 and 205, each of
\* which runs at most once, or, in a run that an exception or Ctrl-C ends
\* before them, by their finalisers as the process ends; a handle that is
\* closed (released, or never opened) is never opened again, nothing is read
\* from a closed decoder and nothing is handed to a released encoder; every
\* step of the loop body runs with the decoder open and with the encoder
\* open if it opened at all.
Finalising == (pc = "printed" /\ pc' = "exit") \/ (pc # "uncaught" /\ pc' = "uncaught")

ClosingRank ==
  CASE pc = "relcap" -> 1 [] pc = "relout" -> 2 [] pc = "destroy" -> 3
    [] pc = "complete" -> 4 [] pc = "confirm" -> 5 [] pc = "returned" -> 6
    [] pc = "raised" -> 7 [] pc = "handled" -> 8 [] pc = "printed" -> 9
    [] pc = "exit" -> 10 [] pc = "uncaught" -> 11
    [] OTHER -> 0

C16_ReleasedOnce ==
  /\ [](pc \in {"read", "count", "process", "stats", "annot1", "annot2", "show",
                "write", "logframe", "waitkey"}
          => (cap.opened /\ out.made /\ (out.ok => out.opened)))
  /\ [][/\ (cap.opened /\ ~cap'.opened) => (pc = "relcap" \/ Finalising)
        /\ (out.opened /\ ~out'.opened) => (pc = "relout" \/ Finalising)
        /\ (pc = "relcap" /\ pc' = "relout") => ~cap'.opened
        /\ (pc = "relout" /\ pc' = "destroy") => ~out'.opened
        /\ (cap.made /\ ~cap.opened) => (~cap'.opened /\ cap'.pos = cap.pos)
        /\ (out.made /\ ~out.opened) => ~out'.opened
        /\ (out.made /\ out.ok /\ ~out.opened) => out'.frames = out.frames
        /\ (ClosingRank > 0 /\ pc' # pc) => ClosingRank' > ClosingRank
        /\ pc \in {"relcap", "relout"} => (cap.made /\ out.made)]_vars

C16_Witness ==
  pc = "exit" /\ cap.ok /\ ~cap.opened /\ out.ok /\ ~out.opened /\ Len(out.frames) >= 2

\* C17: the frames written are, in order, the annotated originals of frames
\* 1, 2, ... of the source: frame i written comes from frame i decoded, and
\* at most the frame being processed is decoded and not yet written.
C17_WrittenIsPrefix ==
  /\ \A i \in 1..Len(out.frames) :
       out.frames[i].src = i /\ out.frames[i].kind = "original"
  /\ Len(out.frames) <= cap.pos
  /\ cap.pos <= Len(out.frames) + 1

C17_Witness ==
  Len(out.frames) = 3 /\ out.frames[3].src = 3 /\ cap.pos = 3

\* C18 (as claimed): every run that reaches the end of the process has ended
\* Completed, Interrupted or Failed.
C18_EndsLabelled ==
  pc \in {"exit", "uncaught"} => (Completed \/ Interrupted \/ Failed)

\* C18 (amended): under weak fairness of the control flow every run reaches
\* the end of the process; the body of the loop is entered at most
\* nFrames + 1 times, once for every frame decoded and at most once more; a
\* run whose decoder opened at line 114 ends Completed, Interrupted or
\* Failed; a run whose decoder did not open there never enters the loop and,
\* unless an exception ends it, ends with none of the three, having reported
\* completion.
C18_Terminates ==
  /\ <>(pc \in {"exit", "uncaught"})
  /\ [](iterations <= nFrames + 1)
  /\ [](cap.pos <= iterations /\ iterations <= cap.pos + 1)
  /\ [](Completed => iterations = cap.pos + 1)
  /\ []((pc \in {"exit", "uncaught"} /\ cap.ok) => (Completed \/ Interrupted \/ Failed))
  /\ [](~cap.ok => iterations = 0 /\ ~Completed /\ ~Interrupted)
  /\ []((pc = "exit" /\ cap.made /\ ~cap.ok /\ ~Faulted)
          => (~Failed /\ HasEntry(log, CompletedEntry) /\ HasEntry(console, SavedLine)))

C18_Witness ==
  pc = "exit" /\ Completed /\ nFrames >= 2 /\ iterations = nFrames + 1

\* C19: once check_video_file has returned (main goes on to line 109) its
\* probe handle is closed; a probe is open outside check_video_file only
\* while the exception that isOpened raised at line 30 is on its way through
\* the handler, whose end finalises it; no process ends with an open probe;
\* and the probe and the decoder of main are never open together.
C19_ProbeClosed ==
  /\ (pc \in {"check_false", "open"} \/ cap.made \/ ValidationFailed) => ~probe.opened
  /\ probe.opened => \/ pc \in {"probe_check", "probe_release"}
                     \/ (exc = "probe_check" /\ pc \in {"raised", "handled", "printed"})
  /\ pc \in {"exit", "uncaught"} => ~probe.opened
  /\ ~(probe.opened /\ cap.opened)

C19_Witness ==
  cap.opened /\ probe.made /\ probe.ok /\ ~probe.opened /\ pc = "read"

====
